---- MODULE Spec2Model ----
(***************************************************************************)
(* A model of the ECU map decoder (BinaryECUParser.extract_map_data) and   *)
(* of the firmware downloader (FirmwareDownloader.download_firmware).      *)
(*                                                                         *)
(* Three specifications share the module:                                  *)
(*   Spec     - one caller; each extract_map_data call is one action;      *)
(*   ConcSpec - several threads run extract_map_data statement by          *)
(*              statement against one shared buffer;                       *)
(*   DlSpec   - download_firmware, statement by statement, with the        *)
(*              failures the network and the file system can produce.      *)
(*                                                                         *)
(* conversion_factor is modelled over the integers: every decoded value    *)
(* is below 2^16 in magnitude, so astype(float) and the product with an    *)
(* integral factor are exact in IEEE double.                               *)
(***************************************************************************)
EXTENDS Integers, Sequences, FiniteSets, TLC

VARIABLES buffer, call, outcome, frames, dl, disk

vars == <<buffer, call, outcome, frames, dl, disk>>

-----------------------------------------------------------------------------
(* Bounds of the model *)

\* longest enumerated buffer
MaxLen == 4

\* number of threads decoding concurrently in ConcSpec
NumThreads == 2

-----------------------------------------------------------------------------
(* Small helpers *)

Min(a, b) == IF a < b THEN a ELSE b

Max(a, b) == IF a > b THEN a ELSE b

Abs(x) == IF x < 0 THEN -x ELSE x

\* all sequences over S of length exactly n
RECURSIVE SeqsOfLen(_, _)
SeqsOfLen(S, n) ==
    IF n = 0 THEN {<<>>}
    ELSE {Append(s, x) : s \in SeqsOfLen(S, n - 1), x \in S}

-----------------------------------------------------------------------------
(* Inputs *)

\* byte values that exercise zero, one, the sign bit and all-ones
ByteVals == {0, 1, 128, 255}

\* buffers with a fixed content: big-endian [1,2,3,4], and sign boundaries
ExampleBuffers ==
    { <<0, 1, 0, 2, 0, 3, 0, 4>>,
      <<127>>, <<127, 255>>, <<255, 127>>, <<1, 2, 3, 4, 5, 6>> }

Buffers == ExampleBuffers \cup UNION {SeqsOfLen(ByteVals, n) : n \in 0..MaxLen}

\* the three names the decoder recognises, and two it does not
KnownTypes == {"8bit", "16bit_hi_lo", "16bit_lo_hi"}

DataTypes == KnownTypes \cup {"32bit", "16bit_mid"}

\* '16bit' in data_type  (substring test, line 56)
Has16bit(data_type) == data_type \in {"16bit_hi_lo", "16bit_lo_hi", "16bit_mid"}

Args ==
    [ start_address : -2..(MaxLen + 1),
      columns : -1..2,
      rows : -1..2,
      data_type : DataTypes,
      is_signed : BOOLEAN,
      conversion_factor : {1, -3} ]

NoArgs ==
    [ start_address |-> 0, columns |-> 0, rows |-> 0, data_type |-> "none",
      is_signed |-> FALSE, conversion_factor |-> 0 ]

-----------------------------------------------------------------------------
(* Outcomes of a call *)

Grid(shape, cells) ==
    [kind |-> "grid", why |-> "ok", shape |-> shape, cells |-> cells, ctx |-> <<>>]

Raise(kind, why, ctx) ==
    [kind |-> kind, why |-> why, shape |-> <<>>, cells |-> <<>>, ctx |-> ctx]

NoOutcome == Raise("none", "none", <<>>)

-----------------------------------------------------------------------------
(* extract_map_data, statement by statement *)

\* line 56
BytesPerVal(data_type) == IF Has16bit(data_type) THEN 2 ELSE 1

\* line 57
TotalBytes(columns, rows, bytes_per_val) == columns * rows * bytes_per_val

\* line 60
OutOfBoundsInclusive(start_address, total_bytes, size) ==
    start_address + total_bytes >= size

OutOfBounds(start_address, total_bytes, size) ==
    start_address + total_bytes > size

\* Python's s[a:b] on a bytes object: negative indices count from the end,
\* indices are clamped to the object, an empty range gives b''
PySliceIndex(i, n) == IF i < 0 THEN Max(i + n, 0) ELSE Min(i, n)

PySlice(s, a, b) ==
    LET lo == PySliceIndex(a, Len(s))
        hi == PySliceIndex(b, Len(s))
    IN  IF lo >= hi THEN <<>> ELSE SubSeq(s, lo + 1, hi)

\* line 64
RawSlice(binary_data, start_address, total_bytes) ==
    PySlice(binary_data, start_address, start_address + total_bytes)

\* lines 67-76: the numpy dtype, or "unsupported"
NoDtype == [width |-> 0, signed |-> FALSE, order |-> "none"]

NpDtype(data_type, is_signed) ==
    IF data_type = "8bit"
    THEN [width |-> 1, signed |-> is_signed, order |-> "byte"]
    ELSE IF data_type = "16bit_hi_lo"
    THEN [width |-> 2, signed |-> is_signed, order |-> "big"]
    ELSE IF data_type = "16bit_lo_hi"
    THEN [width |-> 2, signed |-> is_signed, order |-> "little"]
    ELSE NoDtype

\* the unsigned reading of one element's bytes under a byte order
UnsignedOfSwapped(bs, order) ==
    IF Len(bs) = 1 THEN bs[1]
    ELSE IF order = "big" THEN bs[1] + 256 * bs[2]
    ELSE 256 * bs[1] + bs[2]

UnsignedOf(bs, order) ==
    IF Len(bs) = 1 THEN bs[1]
    ELSE IF order = "big" THEN 256 * bs[1] + bs[2]
    ELSE bs[1] + 256 * bs[2]

\* the most significant byte of an element
TopByte(bs, order) ==
    IF Len(bs) = 1 THEN bs[1]
    ELSE IF order = "big" THEN bs[1] ELSE bs[2]

\* numpy's reading of one element: the sign bit of a signed dtype weighs
\* -2^(8*width-1), every other bit its positive power of two
ElementIgnoringSign(bs, dtype) == UnsignedOf(bs, dtype.order)

Element(bs, dtype) ==
    LET u == UnsignedOf(bs, dtype.order)
        signbit == TopByte(bs, dtype.order) \div 128
        half == IF dtype.width = 1 THEN 128 ELSE 32768
    IN  IF dtype.signed THEN u - 2 * half * signbit ELSE u

\* line 79: np.frombuffer(raw_slice, dtype).astype(float); the caller has
\* checked Len(raw_slice) % dtype.width = 0
FromBuffer(raw_slice, dtype) ==
    [k \in 1..(Len(raw_slice) \div dtype.width) |->
        Element(SubSeq(raw_slice, (k - 1) * dtype.width + 1, k * dtype.width), dtype)]

\* line 82
Scale(data, conversion_factor) ==
    [k \in 1..Len(data) |-> data[k] * conversion_factor]

\* line 85: data.reshape((rows, columns)); one negative dimension is
\* inferred from the size, two are refused, and otherwise sizes must match
RowsOfColumnMajor(data, r, c) ==
    [i \in 1..r |-> [j \in 1..c |-> data[(j - 1) * r + i]]]

RowsOf(data, r, c) ==
    [i \in 1..r |-> [j \in 1..c |-> data[(i - 1) * c + j]]]

ReshapeTransposed(data, rows, columns) ==
    IF rows >= 0 /\ columns >= 0 /\ rows * columns = Len(data)
    THEN Grid(<<columns, rows>>, RowsOf(data, columns, rows))
    ELSE Raise("ValueError", "reshape", <<Len(data), rows, columns>>)

Reshape(data, rows, columns) ==
    LET n == Len(data)
        bad == Raise("ValueError", "reshape", <<n, rows, columns>>)
    IN  IF rows < 0 /\ columns < 0 THEN bad
        ELSE IF rows < 0
        THEN IF columns = 0 \/ n % columns # 0 THEN bad
             ELSE Grid(<<n \div columns, columns>>, RowsOf(data, n \div columns, columns))
        ELSE IF columns < 0
        THEN IF rows = 0 \/ n % rows # 0 THEN bad
             ELSE Grid(<<rows, n \div rows>>, RowsOf(data, rows, n \div rows))
        ELSE IF rows * columns # n THEN bad
        ELSE Grid(<<rows, columns>>, RowsOf(data, rows, columns))

\* the whole function, lines 56-85
ExtractMapData(binary_data, a) ==
    LET bytes_per_val == BytesPerVal(a.data_type)
        total_bytes == TotalBytes(a.columns, a.rows, bytes_per_val)
        raw_slice == RawSlice(binary_data, a.start_address, total_bytes)
        np_dtype == NpDtype(a.data_type, a.is_signed)
    IN  IF OutOfBounds(a.start_address, total_bytes, Len(binary_data))
        THEN Raise("IndexError", "out_of_bounds",
                   <<a.start_address, total_bytes, Len(binary_data)>>)
        ELSE IF np_dtype = NoDtype
        THEN Raise("ValueError", "unsupported_data_type", <<a.data_type>>)
        ELSE IF Len(raw_slice) % np_dtype.width # 0
        THEN Raise("ValueError", "frombuffer", <<Len(raw_slice)>>)
        ELSE Reshape(Scale(FromBuffer(raw_slice, np_dtype), a.conversion_factor),
                     a.rows, a.columns)

-----------------------------------------------------------------------------
(* Spec: one caller, one action per call *)

IdleFrame ==
    [ pc |-> "idle", args |-> NoArgs, bytes_per_val |-> 0, total_bytes |-> 0,
      raw_slice |-> <<>>, np_dtype |-> NoDtype, data |-> <<>>, ret |-> NoOutcome ]

Threads == 1..NumThreads

\* file names the caller downloads to, and a directory entry that is absent
Filenames == {"a.bin", "b.bin"}

Absent == -1

NoHeader == [kind |-> "absent", value |-> 0]

NoReturn == [status |-> "none", message |-> "none", size |-> 0]

IdleDl ==
    [ pc |-> "idle", filename |-> "none", expected |-> <<>>, header |-> NoHeader,
      body |-> 0, sent |-> 0, opened |-> FALSE, ret |-> NoReturn ]

\* __init__ (lines 13-16): the download directory exists and, here, is empty
EmptyDisk == [f \in Filenames |-> Absent]

Init ==
    /\ buffer \in Buffers
    /\ call = NoArgs
    /\ outcome = NoOutcome
    /\ frames = [t \in Threads |-> IdleFrame]
    /\ dl = IdleDl
    /\ disk = EmptyDisk

\* one iteration of the driver loop calls the decoder (lines 108-115)
Extract(a) ==
    /\ call' = a
    /\ outcome' = ExtractMapData(buffer, a)
    /\ UNCHANGED <<buffer, frames, dl, disk>>

\* the driver consumes the grid, or the error ends the loop (line 116);
\* the buffer stays loaded for the next call
Collect ==
    /\ call # NoArgs
    /\ call' = NoArgs
    /\ outcome' = NoOutcome
    /\ UNCHANGED <<buffer, frames, dl, disk>>

Next ==
    \/ call = NoArgs /\ \E a \in Args : Extract(a)
    \/ Collect

Spec == Init /\ [][Next]_vars

-----------------------------------------------------------------------------
(* Vocabulary of the properties of Spec.  These read the buffer and the   *)
(* call directly; they do not go through the decoder's operators.         *)

Called == call # NoArgs

Known == call.data_type \in KnownTypes

\* a descriptor as the data model requires it
ValidDescriptor ==
    call.start_address >= 0 /\ call.columns >= 1 /\ call.rows >= 1

ByteWidth == IF call.data_type = "8bit" THEN 1 ELSE 2

\* start_address + columns*rows*byte_width
Need == call.start_address + call.columns * call.rows * ByteWidth

\* the byte at a 0-based offset of the buffer
ByteAt(off) == buffer[off + 1]

UnsignedAt(off) ==
    IF call.data_type = "8bit" THEN ByteAt(off)
    ELSE IF call.data_type = "16bit_hi_lo" THEN 256 * ByteAt(off) + ByteAt(off + 1)
    ELSE ByteAt(off) + 256 * ByteAt(off + 1)

FullRange == IF ByteWidth = 1 THEN 256 ELSE 65536

TwosComplement(u) == IF u < FullRange \div 2 THEN u ELSE u - FullRange

IntegerAt(off) ==
    IF call.is_signed THEN TwosComplement(UnsignedAt(off)) ELSE UnsignedAt(off)

IsGrid == outcome.kind = "grid"

IsCompleteGrid ==
    /\ IsGrid
    /\ outcome.shape = <<call.rows, call.columns>>
    /\ call.rows >= 0
    /\ call.columns >= 0
    /\ Len(outcome.cells) = call.rows
    /\ \A i \in 1..call.rows : Len(outcome.cells[i]) = call.columns

IsOutOfBounds == outcome.kind = "IndexError" /\ outcome.why = "out_of_bounds"

IsUnsupportedEncoding ==
    outcome.kind = "ValueError" /\ outcome.why = "unsupported_data_type"

-----------------------------------------------------------------------------
(* Properties of Spec *)

\* C1: for every recognised encoding the call fails with the out-of-bounds
\* error exactly when start_address + columns*rows*byte_width exceeds the
\* buffer length; a valid descriptor that ends exactly at the end of the
\* buffer succeeds, and one byte further fails with the out-of-bounds error.
C1_BoundsExact ==
    (Called /\ Known) =>
        /\ IsOutOfBounds <=> (Need > Len(buffer))
        /\ outcome.kind = "IndexError" => IsOutOfBounds
        /\ (ValidDescriptor /\ Need = Len(buffer)) => IsGrid
        /\ (Need = Len(buffer) + 1) => IsOutOfBounds

C1_Witness ==
    /\ Called /\ Known /\ ValidDescriptor
    /\ call.data_type = "16bit_lo_hi"
    /\ call.start_address = 2
    /\ Need = Len(buffer)
    /\ IsGrid

\* C2: a valid descriptor (start >= 0, columns >= 1, rows >= 1) with a
\* recognised encoding that fits in the buffer decodes without error into a
\* grid of exactly `rows` rows of `columns` cells each.
C2_ValidDecodes ==
    (Called /\ Known /\ ValidDescriptor /\ Need <= Len(buffer)) => IsCompleteGrid

C2_Witness ==
    /\ Called /\ Known /\ ValidDescriptor
    /\ call.rows = 1 /\ call.columns = 2
    /\ call.data_type = "16bit_hi_lo"
    /\ Need < Len(buffer)
    /\ IsCompleteGrid

\* C3 (as claimed): an unrecognised encoding name always fails with the
\* unsupported-encoding error, whatever the address and the shape are; it is
\* stated here for valid descriptors, so that nothing but the name is wrong.
C3_UnsupportedAlways ==
    (Called /\ ~Known /\ ValidDescriptor) => IsUnsupportedEncoding

\* C4: in a successful decode of a valid descriptor, cell (r, c) is the
\* scale factor times the integer read from the byte_width bytes at offset
\* start_address + (r*columns + c)*byte_width; big-endian unsigned
\* [1,2,3,4] read as 2x2 with factor 1 is [[1,2],[3,4]].
C4_CellLayout ==
    (Called /\ Known /\ ValidDescriptor /\ IsGrid) =>
        /\ \A r \in 0..(call.rows - 1) : \A c \in 0..(call.columns - 1) :
              outcome.cells[r + 1][c + 1] =
                  call.conversion_factor *
                  IntegerAt(call.start_address + (r * call.columns + c) * ByteWidth)
        /\ ( /\ buffer = <<0, 1, 0, 2, 0, 3, 0, 4>>
             /\ call = [ start_address |-> 0, columns |-> 2, rows |-> 2,
                         data_type |-> "16bit_hi_lo", is_signed |-> FALSE,
                         conversion_factor |-> 1 ] )
           => outcome.cells = << <<1, 2>>, <<3, 4>> >>

C4_Witness ==
    /\ buffer = <<0, 1, 0, 2, 0, 3, 0, 4>>
    /\ call = [ start_address |-> 0, columns |-> 2, rows |-> 2,
                data_type |-> "16bit_hi_lo", is_signed |-> FALSE,
                conversion_factor |-> 1 ]
    /\ outcome.cells = << <<1, 2>>, <<3, 4>> >>

\* the same call under the other byte order
OtherOrder ==
    [call EXCEPT !.data_type =
        IF call.data_type = "16bit_hi_lo" THEN "16bit_lo_hi" ELSE "16bit_hi_lo"]

\* C5: an unsigned 16-bit element with bytes (b0, b1) decodes to 256*b0 + b1
\* big-endian and to b0 + 256*b1 little-endian; 0x01 0x00 is 256 big-endian
\* and 1 little-endian; the two byte orders agree exactly when b0 = b1.
C5_Endianness ==
    ( /\ Called /\ ValidDescriptor /\ IsGrid
      /\ call.data_type \in {"16bit_hi_lo", "16bit_lo_hi"}
      /\ ~call.is_signed /\ call.conversion_factor = 1 ) =>
        /\ \A r \in 0..(call.rows - 1) : \A c \in 0..(call.columns - 1) :
              LET off == call.start_address + (r * call.columns + c) * 2
                  b0 == ByteAt(off)
                  b1 == ByteAt(off + 1)
              IN  /\ call.data_type = "16bit_hi_lo" =>
                        outcome.cells[r + 1][c + 1] = 256 * b0 + b1
                  /\ call.data_type = "16bit_lo_hi" =>
                        outcome.cells[r + 1][c + 1] = b0 + 256 * b1
        /\ (call.rows = 1 /\ call.columns = 1) =>
              ( (outcome = ExtractMapData(buffer, OtherOrder))
                  <=> (ByteAt(call.start_address) = ByteAt(call.start_address + 1)) )
        /\ (buffer = <<1, 0>> /\ call.start_address = 0) =>
              outcome.cells[1][1] =
                  IF call.data_type = "16bit_hi_lo" THEN 256 ELSE 1

C5_Witness ==
    /\ buffer = <<1, 0>>
    /\ Called /\ call.start_address = 0 /\ call.rows = 1 /\ call.columns = 1
    /\ call.data_type = "16bit_lo_hi" /\ ~call.is_signed
    /\ call.conversion_factor = 1
    /\ outcome.cells = << <<1>> >>

\* the same call read as unsigned
AsUnsigned == [call EXCEPT !.is_signed = FALSE]

\* C6: for width w in {8, 16} the signed decode of an element is the
\* two's-complement reading of its unsigned decode u: u when u < 2^(w-1),
\* u - 2^w otherwise; it lies in [-2^(w-1), 2^(w-1) - 1] and the unsigned
\* decode in [0, 2^w - 1]; 0xFF is 255 unsigned 8-bit and -1 signed 8-bit.
C6_Signedness ==
    (Called /\ Known /\ ValidDescriptor /\ IsGrid /\ call.conversion_factor = 1) =>
        LET unsignedGrid == ExtractMapData(buffer, AsUnsigned)
        IN  /\ unsignedGrid.kind = "grid"
            /\ \A r \in 1..call.rows : \A c \in 1..call.columns :
                  LET u == unsignedGrid.cells[r][c]
                      v == outcome.cells[r][c]
                  IN  /\ u >= 0 /\ u <= FullRange - 1
                      /\ ~call.is_signed => v = u
                      /\ call.is_signed =>
                            /\ v = (IF u < FullRange \div 2 THEN u ELSE u - FullRange)
                            /\ v >= -(FullRange \div 2)
                            /\ v <= FullRange \div 2 - 1
            /\ (buffer = <<255>> /\ call.data_type = "8bit") =>
                  outcome.cells[1][1] = IF call.is_signed THEN -1 ELSE 255

C6_Witness ==
    /\ buffer = <<255>>
    /\ Called /\ call.data_type = "8bit" /\ call.is_signed
    /\ call.conversion_factor = 1
    /\ outcome.cells = << <<-1>> >>

\* C7 (as claimed): a descriptor with columns <= 0, rows <= 0 or a negative
\* start_address never comes back from the decoder as a grid.
C7_InvalidDescriptorRejected ==
    (Called /\ ~ValidDescriptor) => ~IsGrid

\* C8 (as claimed): every call ends as a complete rows x columns grid, as
\* the out-of-bounds error or as the unsupported-encoding error.
C8_ThreeOutcomes ==
    Called => (IsCompleteGrid \/ IsOutOfBounds \/ IsUnsupportedEncoding)

-----------------------------------------------------------------------------
(* ConcSpec: threads run extract_map_data statement by statement against  *)
(* one shared bytes object.  Every name assigned in the function is a     *)
(* local of the call, so each thread has its own frame.                   *)

ConcBuffers == { <<1, 128, 255, 0>>, <<0, 1, 0, 2, 0, 3, 0, 4>> }

ConcArgs ==
    { a \in Args :
        /\ a.start_address \in {-1, 0}
        /\ a.columns = 2
        /\ a.rows \in {1, 2}
        /\ a.data_type \in {"8bit", "16bit_lo_hi", "32bit"}
        /\ a.is_signed
        /\ a.conversion_factor = -3 }

\* the frame that holds thread t's locals
FrameOfShared(t) == 1

FrameOf(t) == t

ConcInit ==
    /\ buffer \in ConcBuffers
    /\ call = NoArgs
    /\ outcome = NoOutcome
    /\ frames = [t \in Threads |-> IdleFrame]
    /\ dl = IdleDl
    /\ disk = EmptyDisk

\* the call binds the arguments (lines 33-40)
ThreadCall(t, a) ==
    /\ frames[t].pc = "idle"
    /\ frames' = [frames EXCEPT ![t] = [IdleFrame EXCEPT !.pc = "l56", !.args = a]]
    /\ UNCHANGED <<buffer, call, outcome, dl, disk>>

\* lines 56-57
ThreadWidth(t) ==
    /\ frames[t].pc = "l56"
    /\ LET bpv == BytesPerVal(frames[t].args.data_type)
       IN  frames' = [frames EXCEPT
                ![t].pc = "l60",
                ![t].bytes_per_val = bpv,
                ![t].total_bytes =
                    TotalBytes(frames[t].args.columns, frames[t].args.rows, bpv)]
    /\ UNCHANGED <<buffer, call, outcome, dl, disk>>

\* lines 60-61
ThreadBounds(t) ==
    /\ frames[t].pc = "l60"
    /\ LET f == frames[t]
       IN  IF OutOfBounds(f.args.start_address, f.total_bytes, Len(buffer))
           THEN frames' = [frames EXCEPT
                    ![t].pc = "done",
                    ![t].ret = Raise("IndexError", "out_of_bounds",
                        <<f.args.start_address, f.total_bytes, Len(buffer)>>)]
           ELSE frames' = [frames EXCEPT ![t].pc = "l64"]
    /\ UNCHANGED <<buffer, call, outcome, dl, disk>>

\* line 64
ThreadSlice(t) ==
    /\ frames[t].pc = "l64"
    /\ frames' = [frames EXCEPT
            ![FrameOf(t)].raw_slice =
                RawSlice(buffer, frames[t].args.start_address, frames[t].total_bytes),
            ![t].pc = "l67"]
    /\ UNCHANGED <<buffer, call, outcome, dl, disk>>

\* lines 67-76
ThreadDtype(t) ==
    /\ frames[t].pc = "l67"
    /\ LET dt == NpDtype(frames[t].args.data_type, frames[t].args.is_signed)
       IN  IF dt = NoDtype
           THEN frames' = [frames EXCEPT
                    ![t].pc = "done",
                    ![t].ret = Raise("ValueError", "unsupported_data_type",
                                     <<frames[t].args.data_type>>)]
           ELSE frames' = [frames EXCEPT ![t].pc = "l79", ![t].np_dtype = dt]
    /\ UNCHANGED <<buffer, call, outcome, dl, disk>>

\* line 79
ThreadFromBuffer(t) ==
    /\ frames[t].pc = "l79"
    /\ LET raw == frames[FrameOf(t)].raw_slice
           dt == frames[t].np_dtype
       IN  IF Len(raw) % dt.width # 0
           THEN frames' = [frames EXCEPT
                    ![t].pc = "done",
                    ![t].ret = Raise("ValueError", "frombuffer", <<Len(raw)>>)]
           ELSE frames' = [frames EXCEPT
                    ![t].pc = "l82", ![t].data = FromBuffer(raw, dt)]
    /\ UNCHANGED <<buffer, call, outcome, dl, disk>>

\* line 82
ThreadScale(t) ==
    /\ frames[t].pc = "l82"
    /\ frames' = [frames EXCEPT
            ![t].pc = "l85",
            ![t].data = Scale(frames[t].data, frames[t].args.conversion_factor)]
    /\ UNCHANGED <<buffer, call, outcome, dl, disk>>

\* line 85
ThreadReshape(t) ==
    /\ frames[t].pc = "l85"
    /\ frames' = [frames EXCEPT
            ![t].pc = "done",
            ![t].ret = Reshape(frames[t].data, frames[t].args.rows,
                               frames[t].args.columns)]
    /\ UNCHANGED <<buffer, call, outcome, dl, disk>>

\* the caller takes the grid or the exception; the frame is gone
ThreadReturn(t) ==
    /\ frames[t].pc = "done"
    /\ frames' = [frames EXCEPT ![t] = IdleFrame]
    /\ UNCHANGED <<buffer, call, outcome, dl, disk>>

ConcNext ==
    \E t \in Threads :
        \/ \E a \in ConcArgs : ThreadCall(t, a)
        \/ ThreadWidth(t)
        \/ ThreadBounds(t)
        \/ ThreadSlice(t)
        \/ ThreadDtype(t)
        \/ ThreadFromBuffer(t)
        \/ ThreadScale(t)
        \/ ThreadReshape(t)
        \/ ThreadReturn(t)

ConcSpec == ConcInit /\ [][ConcNext]_vars

\* C9: whatever the interleaving, a call that has finished holds the
\* outcome the same call has when it runs alone on the buffer, so equal
\* inputs give equal results; and no step of any call changes the buffer.
C9_NoInterference ==
    /\ [](\A t \in Threads :
            frames[t].pc = "done" =>
                frames[t].ret = ExtractMapData(buffer, frames[t].args))
    /\ [][buffer' = buffer]_vars

C9_Witness ==
    /\ frames[1].pc = "done"
    /\ frames[1].ret.kind = "grid"
    /\ frames[2].pc = "l79"
    /\ frames[2].args # frames[1].args
    /\ frames[2].raw_slice # frames[1].raw_slice

-----------------------------------------------------------------------------
(* DlSpec: download_firmware, statement by statement.  The network may    *)
(* fail before the response, and the stream may break between chunks; any *)
(* exception lands in the handler of lines 62-63.                         *)

\* chunk_size of iter_content
ChunkSize == 8192

ExpectedLists == { <<>>, <<16>>, <<8, 20>> }

\* the content-length header: absent, not a number, or a number of bytes
Headers ==
    { NoHeader, [kind |-> "text", value |-> 0] }
        \cup { [kind |-> "number", value |-> n] : n \in {0, 16384, 21504} }

\* the number of bytes the server really sends
Bodies == {0, 15564, 15565, 16384, 17203, 17204, 21503, 21504}

\* lines 23-28: abs(size/1024 - expected) < expected * 0.05 for some
\* expected size, written over the integers (both sides times 20 * 1024)
ValidateFileSize(file_size_bytes, expected_sizes_kb) ==
    \E i \in 1..Len(expected_sizes_kb) :
        Abs(file_size_bytes - 1024 * expected_sizes_kb[i]) * 20
            < 1024 * expected_sizes_kb[i]

\* `expected_sizes_kb and ...`: None and the empty list are both falsy
Truthy(expected_sizes_kb) == Len(expected_sizes_kb) > 0

ErrorReturn(message) == [status |-> "error", message |-> message, size |-> 0]

SuccessReturn(size) == [status |-> "success", message |-> "none", size |-> size]

DlInit ==
    /\ buffer = <<>>
    /\ call = NoArgs
    /\ outcome = NoOutcome
    /\ frames = [t \in Threads |-> IdleFrame]
    /\ dl = IdleDl
    /\ disk = EmptyDisk

\* line 30: the call binds its arguments
DlCall(filename, expected_sizes_kb) ==
    /\ dl.pc = "idle"
    /\ dl' = [IdleDl EXCEPT !.pc = "l35", !.filename = filename,
                            !.expected = expected_sizes_kb]
    /\ UNCHANGED <<buffer, call, outcome, frames, disk>>

\* lines 35-36: the response arrives with its header and its body
DlResponse(header, body) ==
    /\ dl.pc = "l35"
    /\ dl' = [dl EXCEPT !.pc = "l38", !.header = header, !.body = body]
    /\ UNCHANGED <<buffer, call, outcome, frames, disk>>

\* lines 35-36 and 62-63: requests.get or raise_for_status raises
DlRequestFails ==
    /\ dl.pc = "l35"
    /\ dl' = [dl EXCEPT !.pc = "done", !.ret = ErrorReturn("request")]
    /\ UNCHANGED <<buffer, call, outcome, frames, disk>>

\* lines 38-42 (and 62-63 when int() raises)
DlHeaderCheck ==
    /\ dl.pc = "l38"
    /\ IF dl.header.kind = "absent"
       THEN dl' = [dl EXCEPT !.pc = "l46"]
       ELSE IF dl.header.kind = "text"
       THEN dl' = [dl EXCEPT !.pc = "done", !.ret = ErrorReturn("int")]
       ELSE IF Truthy(dl.expected) /\ ~ValidateFileSize(dl.header.value, dl.expected)
       THEN dl' = [dl EXCEPT !.pc = "done", !.ret = ErrorReturn("Invalid file size")]
       ELSE dl' = [dl EXCEPT !.pc = "l46"]
    /\ UNCHANGED <<buffer, call, outcome, frames, disk>>

\* line 46: open(file_path, 'wb') creates the file or truncates it
DlOpen ==
    /\ dl.pc = "l46"
    /\ dl' = [dl EXCEPT !.pc = "l47", !.opened = TRUE]
    /\ disk' = [disk EXCEPT ![dl.filename] = 0]
    /\ UNCHANGED <<buffer, call, outcome, frames>>

\* line 46 and 62-63: open raises; nothing is created
DlOpenFails ==
    /\ dl.pc = "l46"
    /\ dl' = [dl EXCEPT !.pc = "done", !.ret = ErrorReturn("open")]
    /\ UNCHANGED <<buffer, call, outcome, frames, disk>>

\* lines 47-48: one chunk is received and written
DlWriteChunk ==
    /\ dl.pc = "l47"
    /\ dl.sent < dl.body
    /\ LET n == Min(ChunkSize, dl.body - dl.sent)
       IN  /\ dl' = [dl EXCEPT !.sent = dl.sent + n]
           /\ disk' = [disk EXCEPT ![dl.filename] = disk[dl.filename] + n]
    /\ UNCHANGED <<buffer, call, outcome, frames>>

\* lines 47-48 and 62-63: the stream breaks or the write fails; the with
\* block closes the file and the handler returns
DlStreamFails ==
    /\ dl.pc = "l47"
    /\ dl' = [dl EXCEPT !.pc = "done", !.ret = ErrorReturn("stream")]
    /\ UNCHANGED <<buffer, call, outcome, frames, disk>>

\* line 47: the stream is exhausted, the with block closes the file
DlLoopEnd ==
    /\ dl.pc = "l47"
    /\ dl.sent = dl.body
    /\ dl' = [dl EXCEPT !.pc = "l50"]
    /\ UNCHANGED <<buffer, call, outcome, frames, disk>>

\* lines 50-60
DlValidate ==
    /\ dl.pc = "l50"
    /\ LET actual_size == disk[dl.filename]
       IN  IF Truthy(dl.expected) /\ ~ValidateFileSize(actual_size, dl.expected)
           THEN /\ disk' = [disk EXCEPT ![dl.filename] = Absent]
                /\ dl' = [dl EXCEPT !.pc = "done",
                        !.ret = ErrorReturn("Downloaded file failed size validation.")]
           ELSE /\ disk' = disk
                /\ dl' = [dl EXCEPT !.pc = "done", !.ret = SuccessReturn(actual_size)]
    /\ UNCHANGED <<buffer, call, outcome, frames>>

\* the caller has the dict; a later call starts afresh
DlReturn ==
    /\ dl.pc = "done"
    /\ dl' = IdleDl
    /\ UNCHANGED <<buffer, call, outcome, frames, disk>>

DlNext ==
    \/ \E f \in Filenames : \E e \in ExpectedLists : DlCall(f, e)
    \/ \E h \in Headers : \E b \in Bodies : DlResponse(h, b)
    \/ DlRequestFails
    \/ DlHeaderCheck
    \/ DlOpen
    \/ DlOpenFails
    \/ DlWriteChunk
    \/ DlStreamFails
    \/ DlLoopEnd
    \/ DlValidate
    \/ DlReturn

DlSpec == DlInit /\ [][DlNext]_vars

\* C10 (as claimed): with a non-empty expected_sizes_kb a "success" means
\* the file on disk passes validate_file_size, and an "error" means the
\* call has left no file under that name.
C10_ErrorLeavesNoFile ==
    (dl.pc = "done" /\ Truthy(dl.expected)) =>
        /\ dl.ret.status \in {"success", "error"}
        /\ dl.ret.status = "success" =>
              /\ disk[dl.filename] = dl.ret.size
              /\ ValidateFileSize(dl.ret.size, dl.expected)
        /\ (dl.ret.status = "error" /\ dl.opened) => disk[dl.filename] = Absent

====
